---------------------------- MODULE Spec2Model ----------------------------
(***************************************************************************)
(* State-machine model of the chat application:                            *)
(*   - the relay server's Room Session (socket.io handlers, part_000),     *)
(*   - the Local Store (StorageService, part_001),                         *)
(*   - the Connection Coordinator and the Direct-Link Transport            *)
(*     (ConnectionService / BluetoothService, part_001).                   *)
(* Each component has its own specification over the shared variables:     *)
(* SpecServer, SpecStore and SpecClient.                                   *)
(***************************************************************************)
EXTENDS Integers, Sequences, FiniteSets, TLC

(***************************************************************************)
(* Bounds of the model.                                                    *)
(***************************************************************************)
\* number of messages the server stamps (uuidv4 calls) in one run
MaxMessages == 2

\* number of messages recorded in one run of SpecTyping
MaxTypingMessages == 1

\* number of StorageService.addMessage calls the Local Store takes beyond
\* the ones that fill the log to its cap
MaxAdds == 5

\* number of ConnectionService.connect() calls in one run
MaxConnects == 2

\* number of ConnectionService.disconnect() calls in one run
MaxDisconnects == 1

\* number of ConnectionService.disconnect() calls in one run of SpecTeardown
MaxTeardowns == 2

\* number of times ChatRoom's effect registers its listeners in one run
MaxSubs == 1

\* number of messages the client stores in one run of its connection
\* life cycle
MaxInbound == 1

\* number of connect() calls and of stored messages in one run of the
\* client's message exchange
MaxSessions == 1
MaxStored == 2

\* number of times socket.io-client reconnects one socket
MaxReconnects == 1

\* number of characteristic writes that sendMessage awaits at one time
MaxWrites == 1

\* the last value of Date.now() in one run
MaxNow == 4

\* number of keypresses and startTyping / stopTyping calls in one run
MaxTypingLog == 4

(***************************************************************************)
(* Program constants.                                                      *)
(***************************************************************************)
\* messages.slice(-1000): the cap of the stored message log
MaxStoredMessages == 1000

(***************************************************************************)
(* Input domains.                                                          *)
(***************************************************************************)
Conns == {"s1", "s2"}
Rooms == {"ABCD", "WXYZ"}
Names == {"alice", "bob"}
Texts == {"hi"}

None == "none"

(***************************************************************************)
(* Generic helpers for JS Map / Set / Array values.                        *)
(***************************************************************************)
\* Map.set(k, v)
MapSet(m, k, v) == [x \in DOMAIN m \cup {k} |-> IF x = k THEN v ELSE m[x]]

\* Map.delete(k)
MapDelete(m, k) == [x \in DOMAIN m \ {k} |-> m[x]]

\* Map.has(k)
MapHas(m, k) == k \in DOMAIN m

\* the elements of an array, as a set
Range(s) == {s[i] : i \in 1..Len(s)}

\* Array.prototype.filter, keeping the order
RECURSIVE SeqFilter(_, _)
SeqFilter(s, keep) ==
  IF s = <<>> THEN <<>>
  ELSE IF Head(s) \in keep THEN <<Head(s)>> \o SeqFilter(Tail(s), keep)
       ELSE SeqFilter(Tail(s), keep)

\* Set.add on an insertion-ordered JS Set
SetAdd(s, x) == IF x \in Range(s) THEN s ELSE Append(s, x)

\* Set.delete on an insertion-ordered JS Set
SetDelete(s, x) == SeqFilter(s, Range(s) \ {x})

VARIABLES
  \* ---- relay server (part_000) ----
  sockState,   \* per socket id: "idle" (not yet connected), "open", "closed"
  users,       \* Map socket.id -> membership record
  rooms,       \* Map roomCode -> room record (users: insertion-ordered Set)
  messages,    \* Map roomCode -> array of stamped messages
  adapter,     \* socket.io rooms: roomCode -> set of sockets that socket.join()ed
  emitted,     \* per socket: the frames the last handler emitted to it
  nextUuid,    \* uuidv4(): the next fresh id
  \* ---- history variables of the server ----
  lastEv,      \* the event the last handler processed
  lastJoin,    \* per socket: room code and name of its most recent join-room
  recorded,    \* per room code: messages accepted since the room was created
  seen,        \* per socket: message ids delivered in room-history / new-message
  rejected,    \* the sockets that had a send-message rejected
  \* ---- Local Store (StorageService, part_001) ----
  localStorage, \* window.localStorage: Map key -> string
  \* ---- history variables of the Local Store ----
  added,       \* every message passed to StorageService.addMessage, in order
  \* ---- the browser the client runs in ----
  isOnline,    \* navigator.onLine when the ConnectionService was constructed
  hasBluetooth, \* navigator.bluetooth is defined
  hasWebRTC,   \* RTCPeerConnection is defined
  now,         \* Date.now()
  \* ---- ConnectionService (part_001) ----
  socket,      \* this.socket: 0 (null) or an index of sockets
  sockets,     \* every socket io() returned: state and the epoch it was made in
  csListeners, \* this.eventListeners: event -> array of subscribers
  \* ---- BluetoothService (part_001) ----
  device,      \* this.device: 0 (null) or the task that obtained it
  server,      \* this.server: 0 (null) or the task that obtained it
  characteristic, \* this.characteristic: 0 (null) or an index of chars
  chars,       \* every GATT characteristic obtained
  webRTCDataChannel, \* this.webRTCDataChannel: 0 (null) or an index of channels
  channels,    \* every data channel created
  bsListeners, \* this.eventListeners: event -> number of callbacks
  tasks,       \* every call of connectToBluetooth: where initialize() stands
  pendingWrites, \* writeValue() promises that sendMessage awaits
  \* ---- ChatRoom (ChatRoom.tsx) ----
  isConnected, \* the isConnected state
  nextSub,     \* the next run of the effect that subscribes
  typingTimeoutRef, \* typingTimeoutRef.current: 0 (undefined) or an index of timers
  timers,      \* every setTimeout of handleTyping: when it is due, and its state
  \* ---- history variables of the client ----
  epoch,       \* number of ConnectionService.disconnect() calls so far
  delivered,   \* the subscriber callbacks the last step invoked, in order
  sent,        \* the frames the last step handed to a link
  produced,    \* the events the transports produced in the last step
  historyDue,  \* the sockets with a join-room frame the server has not answered
  inRoom,      \* the sockets whose join-room the server has answered
  roomLog,     \* the messages the server has stamped in the user's room
  unechoed,    \* the sockets with a send-message frame the server has not echoed
  mine,        \* the messages sendMessage has built for the direct link
  pendingJoin, \* a joinRoom call found no ready transport and no join request
               \* has been issued on a transport since
  typingLog    \* the keypresses and the startTyping / stopTyping calls, in order

serverVars == <<sockState, users, rooms, messages, adapter, emitted, nextUuid,
                lastEv, lastJoin, recorded, seen, rejected>>

storeVars == <<localStorage, added>>

clientVars == <<isOnline, hasBluetooth, hasWebRTC, now, socket, sockets,
                csListeners, device, server, characteristic, chars,
                webRTCDataChannel, channels, bsListeners, tasks, pendingWrites,
                isConnected, nextSub, epoch, delivered, sent, produced,
                historyDue, inRoom, roomLog, unechoed, mine,
                pendingJoin, typingTimeoutRef, timers, typingLog>>

vars == <<serverVars, storeVars, clientVars>>

(***************************************************************************)
(* Relay server: Room Session.  Handlers run to completion one at a time   *)
(* (single-threaded event loop), so each handler is one action.  The       *)
(* timestamps the handlers stamp with new Date() are never read by any     *)
(* handler and are left out of the records.                                *)
(***************************************************************************)
NoFrames == [c \in Conns |-> <<>>]

Frame(type, data) == [type |-> type, data |-> data]

\* an emit that reaches every connection instead of this socket only
SocketEmit_ToAll(out, s, type, data) ==
  [c \in Conns |-> Append(out[c], Frame(type, data))]

\* socket.emit(type, data): to this socket only
SocketEmit(out, s, type, data) ==
  [out EXCEPT ![s] = Append(@, Frame(type, data))]

\* io.to(roomCode).emit(type, data): to every socket in the socket.io room
IoToEmit(out, roomCode, type, data) ==
  [c \in Conns |-> IF c \in adapter'[roomCode]
                   THEN Append(out[c], Frame(type, data)) ELSE out[c]]

\* mutant of SocketToEmit: the emitting socket gets the frame too
SocketToEmit_IncludingSender(out, s, roomCode, type, data) ==
  [c \in Conns |-> IF c \in adapter'[roomCode]
                   THEN Append(out[c], Frame(type, data)) ELSE out[c]]

\* socket.to(roomCode).emit(type, data): the room except the emitting socket
SocketToEmit(out, s, roomCode, type, data) ==
  [c \in Conns |-> IF c \in adapter'[roomCode] /\ c # s
                   THEN Append(out[c], Frame(type, data)) ELSE out[c]]

\* Array.from(room.users).map(userId => users.get(userId)).filter(Boolean)
RECURSIVE RoomUsers(_, _)
RoomUsers(ids, us) ==
  IF ids = <<>> THEN <<>>
  ELSE IF MapHas(us, Head(ids)) THEN <<us[Head(ids)]>> \o RoomUsers(Tail(ids), us)
       ELSE RoomUsers(Tail(ids), us)

\* mutant of IsAuthorized: only checks that the connection has joined some room
IsAuthorized_AnyRoom(s, roomCode) == MapHas(users, s)

\* the guard of send-message / typing-*: user && user.roomCode === roomCode
IsAuthorized(s, roomCode) == MapHas(users, s) /\ users[s].roomCode = roomCode

\* mutant of StoreMessage: unshift instead of push
StoreMessage_Unshift(msgs, roomCode, messageData) ==
  LET msgs1 == IF ~MapHas(msgs, roomCode) THEN MapSet(msgs, roomCode, <<>>) ELSE msgs
  IN [msgs1 EXCEPT ![roomCode] = <<messageData>> \o @]

\* if (!messages.has(roomCode)) messages.set(roomCode, []);
\* messages.get(roomCode).push(messageData)
StoreMessage(msgs, roomCode, messageData) ==
  LET msgs1 == IF ~MapHas(msgs, roomCode) THEN MapSet(msgs, roomCode, <<>>) ELSE msgs
  IN [msgs1 EXCEPT ![roomCode] = Append(@, messageData)]

\* mutant of DeleteHistory: the history of a deleted room is kept
DeleteHistory_Keep(msgs, roomCode) == msgs

\* messages.delete(user.roomCode)
DeleteHistory(msgs, roomCode) == MapDelete(msgs, roomCode)

\* mutant of BroadcastNewMessage: socket.to(...), which leaves out the sender
BroadcastNewMessage_ExceptSender(s, roomCode, messageData) ==
  SocketToEmit(NoFrames, s, roomCode, "new-message", messageData)

\* io.to(roomCode).emit('new-message', messageData)
BroadcastNewMessage(s, roomCode, messageData) ==
  IoToEmit(NoFrames, roomCode, "new-message", messageData)

\* ids of the messages carried by the frames emitted to one socket
MessageIdsIn(frames) ==
  UNION {IF frames[i].type = "new-message" THEN {frames[i].data.id}
         ELSE IF frames[i].type = "room-history"
              THEN {frames[i].data[j].id : j \in 1..Len(frames[i].data)}
              ELSE {} : i \in 1..Len(frames)}

NoEvent == [type |-> "init", conn |-> None, roomCode |-> None,
            userName |-> None, message |-> None]

Event(type, s, roomCode, userName, message) ==
  [type |-> type, conn |-> s, roomCode |-> roomCode,
   userName |-> userName, message |-> message]

NeverJoined == [roomCode |-> None, userName |-> None]

InitServer ==
  /\ sockState = [c \in Conns |-> "idle"]
  /\ users = <<>>
  /\ rooms = <<>>
  /\ messages = <<>>
  /\ adapter = [r \in Rooms |-> {}]
  /\ emitted = NoFrames
  /\ nextUuid = 1
  /\ lastEv = NoEvent
  /\ lastJoin = [c \in Conns |-> NeverJoined]
  /\ recorded = [r \in Rooms |-> <<>>]
  /\ seen = [c \in Conns |-> {}]
  /\ rejected = {}

\* io.on('connection', socket => ...)
Connection(s) ==
  /\ sockState[s] = "idle"
  /\ sockState' = [sockState EXCEPT ![s] = "open"]
  /\ emitted' = NoFrames
  /\ lastEv' = Event("connection", s, None, None, None)
  /\ UNCHANGED <<users, rooms, messages, adapter, nextUuid, lastJoin, recorded, seen,
                 rejected>>

\* socket.on('join-room', ({ userName, roomCode }) => ...)
JoinRoom(s, userName, roomCode) ==
  /\ sockState[s] = "open"
  /\ LET created == ~MapHas(rooms, roomCode)
         rooms1 == IF created
                   THEN MapSet(rooms, roomCode, [id |-> roomCode, users |-> <<>>])
                   ELSE rooms
         messages1 == IF created THEN MapSet(messages, roomCode, <<>>) ELSE messages
         room == [rooms1[roomCode] EXCEPT !.users = SetAdd(@, s)]
         users1 == MapSet(users, s, [id |-> s, name |-> userName,
                                     roomCode |-> roomCode])
         roomMessages == IF MapHas(messages1, roomCode)
                         THEN messages1[roomCode] ELSE <<>>
         out1 == SocketEmit(NoFrames, s, "room-history", roomMessages)
         out2 == SocketToEmit(out1, s, roomCode, "user-joined",
                   [userName |-> userName, userId |-> s])
         out3 == IoToEmit(out2, roomCode, "room-users", RoomUsers(room.users, users1))
     IN /\ rooms' = MapSet(rooms1, roomCode, room)
        /\ messages' = messages1
        /\ users' = users1
        /\ adapter' = [adapter EXCEPT ![roomCode] = @ \cup {s}]
        /\ emitted' = out3
        \* history: a room the registry did not hold starts a new life
        /\ recorded' = IF created THEN [recorded EXCEPT ![roomCode] = <<>>]
                       ELSE recorded
  /\ lastJoin' = [lastJoin EXCEPT ![s] = [roomCode |-> roomCode, userName |-> userName]]
  /\ seen' = [c \in Conns |-> seen[c] \cup MessageIdsIn(emitted'[c])]
  /\ lastEv' = Event("join-room", s, roomCode, userName, None)
  /\ UNCHANGED <<sockState, nextUuid, rejected>>

\* socket.on('send-message', ({ message, roomCode }) => ...)
SendMessage(s, message, roomCode) ==
  /\ nextUuid <= MaxMessages
  /\ sockState[s] = "open"
  /\ IF ~IsAuthorized(s, roomCode)
     THEN /\ emitted' = SocketEmit(NoFrames, s, "error", [message |-> "Unauthorized"])
          /\ UNCHANGED <<messages, adapter, nextUuid>>
     ELSE LET user == users[s]
              messageData == [id |-> nextUuid, text |-> message,
                              sender |-> user.name, senderId |-> s,
                              roomCode |-> roomCode]
          IN /\ messages' = StoreMessage(messages, roomCode, messageData)
             /\ nextUuid' = nextUuid + 1
             /\ adapter' = adapter
             /\ emitted' = BroadcastNewMessage(s, roomCode, messageData)
  \* history: what the Room Session's contract says is recorded
  /\ recorded' = IF lastJoin[s].roomCode = roomCode
                 THEN [recorded EXCEPT ![roomCode] =
                         Append(@, [id |-> nextUuid, text |-> message,
                                    sender |-> lastJoin[s].userName,
                                    senderId |-> s, roomCode |-> roomCode])]
                 ELSE recorded
  /\ seen' = [c \in Conns |-> seen[c] \cup MessageIdsIn(emitted'[c])]
  /\ rejected' = IF IsAuthorized(s, roomCode) THEN rejected ELSE rejected \cup {s}
  /\ lastEv' = Event("send-message", s, roomCode, None, message)
  /\ UNCHANGED <<sockState, users, rooms, lastJoin>>

\* socket.on('typing-start' | 'typing-stop', ({ roomCode }) => ...)
Typing(s, kind, roomCode) ==
  /\ sockState[s] = "open"
  /\ adapter' = adapter
  /\ emitted' = IF IsAuthorized(s, roomCode)
                THEN SocketToEmit(NoFrames, s, roomCode,
                       IF kind = "typing-start" THEN "user-typing"
                       ELSE "user-stopped-typing",
                       [userName |-> users[s].name, userId |-> s])
                ELSE NoFrames
  /\ lastEv' = Event(kind, s, roomCode, None, None)
  /\ UNCHANGED <<sockState, users, rooms, messages, nextUuid, lastJoin, recorded, seen,
                 rejected>>

\* socket.on('disconnect', () => ...); socket.io has already removed the
\* socket from every socket.io room when the handler runs
Disconnect(s) ==
  /\ sockState[s] = "open"
  /\ sockState' = [sockState EXCEPT ![s] = "closed"]
  /\ adapter' = [r \in Rooms |-> adapter[r] \ {s}]
  /\ IF MapHas(users, s)
     THEN LET user == users[s]
          IN /\ IF MapHas(rooms, user.roomCode)
                THEN LET room == [rooms[user.roomCode]
                                    EXCEPT !.users = SetDelete(@, s)]
                         out1 == SocketToEmit(NoFrames, s, user.roomCode, "user-left",
                                   [userName |-> user.name, userId |-> s])
                         out2 == IoToEmit(out1, user.roomCode, "room-users",
                                   RoomUsers(room.users, users))
                     IN /\ emitted' = out2
                        /\ IF Len(room.users) = 0
                           THEN /\ rooms' = MapDelete(rooms, user.roomCode)
                                /\ messages' = DeleteHistory(messages, user.roomCode)
                           ELSE /\ rooms' = MapSet(rooms, user.roomCode, room)
                                /\ messages' = messages
                ELSE /\ emitted' = NoFrames
                     /\ UNCHANGED <<rooms, messages>>
             /\ users' = MapDelete(users, s)
     ELSE /\ emitted' = NoFrames
          /\ UNCHANGED <<users, rooms, messages>>
  /\ lastJoin' = [lastJoin EXCEPT ![s] = NeverJoined]
  /\ lastEv' = Event("disconnect", s, None, None, None)
  /\ UNCHANGED <<nextUuid, recorded, seen, rejected>>

NextServer ==
  \/ \E s \in Conns : Connection(s) /\ UNCHANGED <<storeVars, clientVars>>
  \/ \E s \in Conns, n \in Names, r \in Rooms :
       JoinRoom(s, n, r) /\ UNCHANGED <<storeVars, clientVars>>
  \/ \E s \in Conns, t \in Texts, r \in Rooms :
       SendMessage(s, t, r) /\ UNCHANGED <<storeVars, clientVars>>
  \/ \E s \in Conns : Disconnect(s) /\ UNCHANGED <<storeVars, clientVars>>

\* the Room Session with typing signals
NextTyping ==
  \/ \E s \in Conns : Connection(s) /\ UNCHANGED <<storeVars, clientVars>>
  \/ \E s \in Conns, r \in Rooms :
       JoinRoom(s, "alice", r) /\ UNCHANGED <<storeVars, clientVars>>
  \/ \E s \in Conns, t \in Texts, r \in Rooms :
       nextUuid <= MaxTypingMessages
         /\ SendMessage(s, t, r) /\ UNCHANGED <<storeVars, clientVars>>
  \/ \E s \in Conns : Disconnect(s) /\ UNCHANGED <<storeVars, clientVars>>
  \/ \E s \in Conns, kind \in {"typing-start", "typing-stop"}, r \in Rooms :
       Typing(s, kind, r) /\ UNCHANGED <<storeVars, clientVars>>

(***************************************************************************)
(* Local Store: StorageService over window.localStorage.                   *)
(***************************************************************************)
MESSAGES_KEY == "chat-app-messages"

\* JSON.stringify of an array of messages: a string that holds the array
JSONStringify(value) == [json |-> value]

\* JSON.parse of such a string
JSONParse(str) == str.json

\* localStorage.getItem(key): <<>> stands for null
GetItem(ls, key) == IF MapHas(ls, key) THEN <<ls[key]>> ELSE <<>>

\* localStorage.setItem(key, value)
SetItem(ls, key, value) == MapSet(ls, key, value)

\* Array.prototype.slice(-n)
SliceLast(s, n) == IF Len(s) <= n THEN s ELSE SubSeq(s, Len(s) - n + 1, Len(s))

\* Array.prototype.filter(msg => msg.roomCode === roomCode)
RECURSIVE FilterRoom(_, _)
FilterRoom(msgs, roomCode) ==
  IF msgs = <<>> THEN <<>>
  ELSE IF Head(msgs).roomCode = roomCode
       THEN <<Head(msgs)>> \o FilterRoom(Tail(msgs), roomCode)
       ELSE FilterRoom(Tail(msgs), roomCode)

\* StorageService.getMessages(): all stored messages
GetMessages(ls) ==
  LET messagesData == GetItem(ls, MESSAGES_KEY)
  IN IF messagesData # <<>> THEN JSONParse(messagesData[1]) ELSE <<>>

\* StorageService.getMessages(roomCode)
GetMessagesOf(ls, roomCode) == FilterRoom(GetMessages(ls), roomCode)

\* mutant of AddMessage: slice(0, 1000), which keeps the oldest entries
AddMessage_KeepOldest(ls, message) ==
  LET msgs == Append(GetMessages(ls), message)
      recentMessages == IF Len(msgs) <= MaxStoredMessages THEN msgs
                        ELSE SubSeq(msgs, 1, MaxStoredMessages)
  IN SetItem(ls, MESSAGES_KEY, JSONStringify(recentMessages))

\* StorageService.addMessage(message): the new value of localStorage
AddMessage(ls, message) ==
  LET msgs == Append(GetMessages(ls), message)
      recentMessages == SliceLast(msgs, MaxStoredMessages)
  IN SetItem(ls, MESSAGES_KEY, JSONStringify(recentMessages))

\* the n-th message the sessions hand to the Local Store
StoreInput(n) ==
  [id |-> n, text |-> "hi", sender |-> "alice", senderId |-> "s1",
   roomCode |-> IF n % 2 = 1 THEN "ABCD" ELSE "WXYZ"]

\* localStorage outlives the page: the number of messages that earlier
\* sessions have added when this one starts
PriorAdds == {0} \cup ((MaxStoredMessages - 10)..MaxStoredMessages)

\* the log after n addMessage calls on an empty localStorage, n within the cap
PriorLog(n) == [i \in 1..n |-> StoreInput(i)]

InitStore ==
  \E n \in PriorAdds :
    /\ localStorage = IF n = 0 THEN <<>>
                      ELSE SetItem(<<>>, MESSAGES_KEY, JSONStringify(PriorLog(n)))
    /\ added = PriorLog(n)

\* a caller stores one more message
StoreAddMessage ==
  /\ Len(added) < MaxStoredMessages + MaxAdds
  /\ LET message == StoreInput(Len(added) + 1)
     IN /\ localStorage' = AddMessage(localStorage, message)
        /\ added' = Append(added, message)
  /\ UNCHANGED <<serverVars, clientVars>>

NextStore == StoreAddMessage

(***************************************************************************)
(* Client: ConnectionService (the Coordinator), BluetoothService (the      *)
(* Direct-Link Transport), the socket.io-client sockets (the Relay         *)
(* Transport) and the ChatRoom component that subscribes to the            *)
(* Coordinator.  Every synchronous run of code (a public call, a resumed   *)
(* async function, a transport callback) is one action.                    *)
(***************************************************************************)
\* the event names ChatRoom subscribes to (ChatRoom.tsx lines 60-91)
Vocabulary == {"connected", "disconnected", "message", "room-history",
               "room-users", "user-typing", "user-stopped-typing", "error"}

\* the events connectToBluetooth forwards from the BluetoothService
BSEvents == {"connected", "message", "error"}

\* the ChatRoom's user prop
User == [name |-> "alice", roomCode |-> "ABCD"]

\* the texts a caller passes to sendMessage, as arrays of characters
ClientTexts == {<<"h", "i">>}

BlankTexts == {<<" ", " ">>, <<>>}

\* String.prototype.trim()
RECURSIVE TrimStart(_)
TrimStart(str) ==
  IF str # <<>> /\ Head(str) = " " THEN TrimStart(Tail(str)) ELSE str

RECURSIVE TrimEnd(_)
TrimEnd(str) ==
  IF str # <<>> /\ str[Len(str)] = " "
  THEN TrimEnd(SubSeq(str, 1, Len(str) - 1)) ELSE str

Trim(str) == TrimEnd(TrimStart(str))

\* socket.id of the n-th connection of socket i
SocketId(i, n) == <<"socket", i, n>>

\* a message a peer or the server delivers to this client
RemoteMessage ==
  [id |-> 0, text |-> <<"y", "o">>, sender |-> "bob", senderId |-> SocketId(0, 1),
   roomCode |-> "ABCD"]

\* a message a peer built with ConnectionService.sendMessage at its time 0
PeerMessage ==
  [id |-> 0, text |-> <<"y", "o">>, sender |-> "You",
   senderId |-> <<"bluetooth", 0, 0>>, roomCode |-> "ABCD"]

\* inbound direct-link frames: well-formed JSON of a message, or garbage
InboundFrames == {[ok |-> TRUE, value |-> PeerMessage],
                  [ok |-> FALSE, value |-> PeerMessage]}

\* server frames of the relay wire protocol, with their payloads
ServerFrames ==
  {Frame("new-message", RemoteMessage),
   Frame("room-history", roomLog),
   Frame("room-users", <<[id |-> "peer", name |-> "bob", roomCode |-> "ABCD"]>>),
   Frame("user-joined", [userName |-> "bob", userId |-> "peer"]),
   Frame("user-left", [userName |-> "bob", userId |-> "peer"]),
   Frame("user-typing", [userName |-> "bob", userId |-> "peer"]),
   Frame("user-stopped-typing", [userName |-> "bob", userId |-> "peer"]),
   Frame("error", [message |-> "Unauthorized"])}

\* the awaits of BluetoothService.initialize, in order
AwaitPoints == <<"requestDevice", "gattConnect", "getPrimaryService",
                 "getCharacteristic", "startNotifications">>

NoListeners == [e \in Vocabulary |-> <<>>]

NoForwarders == [e \in BSEvents |-> 0]

\* the values a synchronous run of code works on
Context ==
  [delivered |-> <<>>, sent |-> <<>>, produced |-> <<>>,
   ls |-> localStorage, added |-> added, isConnected |-> isConnected,
   historyDue |-> historyDue, inRoom |-> inRoom, roomLog |-> roomLog,
   unechoed |-> unechoed, mine |-> mine,
   pendingJoin |-> pendingJoin]

\* the links ConnectionService.joinRoom / sendMessage look at
Links(sock, socks, char, chan, chans) ==
  [socket |-> sock, sockets |-> socks, characteristic |-> char,
   channel |-> chan, channels |-> chans]

CurrentLinks == Links(socket, sockets, characteristic, webRTCDataChannel, channels)

Sent(via, link, type, data) ==
  [via |-> via, link |-> link, type |-> type, data |-> data]

\* where an event comes from: n is its place among the events the transport
\* produced in this run (0: the Coordinator's own event); stale says that the
\* transport or attempt it comes from was torn down by disconnect() before
Origin(n, stale) == [n |-> n, stale |-> stale]

\* this.socket && this.socket.connected
SocketConnected(lk) ==
  lk.socket # 0 /\ lk.sockets[lk.socket].state = "connected"

\* this.webRTCDataChannel && this.webRTCDataChannel.readyState === 'open'
ChannelOpen(lk) ==
  lk.channel # 0 /\ lk.channels[lk.channel].state = "open"

\* BluetoothService.broadcastSystemMessage(message): the frames written
BS_broadcastSystemMessage(lk, message) ==
  IF lk.characteristic # 0
  THEN <<Sent("characteristic", lk.characteristic, "system", message)>>
  ELSE IF ChannelOpen(lk)
       THEN <<Sent("channel", lk.channel, "system", message)>>
       ELSE <<>>

\* BluetoothService.joinRoom(userName, roomCode)
BS_joinRoom(lk, userName, roomCode) ==
  BS_broadcastSystemMessage(lk,
    [type |-> "user-joined", userName |-> userName, roomCode |-> roomCode])

\* ConnectionService.joinRoom(userName, roomCode): the frames handed over
CS_joinRoom(lk, userName, roomCode) ==
  IF SocketConnected(lk)
  THEN <<Sent("socket", lk.socket, "join-room",
              [userName |-> userName, roomCode |-> roomCode])>>
  ELSE IF ~isOnline
       THEN BS_joinRoom(lk, userName, roomCode)
       ELSE <<>>

\* ConnectionService.getSocketId(): a socket has an id while it is connected
GetSocketId(lk) ==
  IF lk.socket # 0
  THEN IF lk.sockets[lk.socket].state = "connected"
       THEN SocketId(lk.socket, lk.sockets[lk.socket].conns)
       ELSE <<"unknown", 0, 0>>
  ELSE <<"bluetooth", now, 0>>

\* isOwn: message.senderId === connectionService.getSocketId(), as the
\* 'message' and 'room-history' listeners compute it (ChatRoom.tsx lines 69-75)
IsOwn(lk, event, data) ==
  IF event = "message" THEN <<data.senderId = GetSocketId(lk)>>
  ELSE IF event = "room-history"
       THEN [i \in DOMAIN data |-> data[i].senderId = GetSocketId(lk)]
       ELSE <<>>

\* mutant of Callback: the 'error' listener treats the connection as lost
Callback_ErrorDisconnects(cx, lk, event, sub, data, origin) ==
  LET cx1 == [cx EXCEPT !.delivered =
                Append(@, [event |-> event, sub |-> sub, data |-> data,
                           n |-> origin.n, stale |-> origin.stale,
                           isOwn |-> IsOwn(lk, event, data)])]
  IN IF event = "connected"
     THEN [cx1 EXCEPT !.isConnected = TRUE,
                      !.sent = @ \o CS_joinRoom(lk, User.name, User.roomCode)]
     ELSE IF event \in {"disconnected", "error"}
          THEN [cx1 EXCEPT !.isConnected = FALSE]
          ELSE cx1

\* one ChatRoom listener called with an event (ChatRoom.tsx lines 60-91)
Callback(cx, lk, event, sub, data, origin) ==
  LET cx1 == [cx EXCEPT !.delivered =
                Append(@, [event |-> event, sub |-> sub, data |-> data,
                           n |-> origin.n, stale |-> origin.stale,
                           isOwn |-> IsOwn(lk, event, data)])]
  IN IF event = "connected"
     THEN [cx1 EXCEPT !.isConnected = TRUE,
                      !.sent = @ \o CS_joinRoom(lk, User.name, User.roomCode)]
     ELSE IF event = "disconnected"
          THEN [cx1 EXCEPT !.isConnected = FALSE]
          ELSE cx1

\* listeners.forEach(callback => callback(data))
RECURSIVE ForEachListener(_, _, _, _, _, _)
ForEachListener(cx, lk, subs, event, data, origin) ==
  IF subs = <<>> THEN cx
  ELSE ForEachListener(Callback(cx, lk, event, Head(subs), data, origin),
                       lk, Tail(subs), event, data, origin)

\* ConnectionService.emit(event, data)
CS_emit(cx, lk, event, data, origin) ==
  ForEachListener(cx, lk, csListeners[event], event, data, origin)

\* one of the callbacks connectToBluetooth registers on the BluetoothService
\* (part_001 lines 325-336)
Forwarder(cx, lk, event, data, origin) ==
  LET cx1 == CS_emit(cx, lk, event, data, origin)
  IN IF event = "message"
     THEN [cx1 EXCEPT !.ls = AddMessage(@, data), !.added = Append(@, data)]
     ELSE cx1

RECURSIVE ForEachForwarder(_, _, _, _, _, _)
ForEachForwarder(cx, lk, count, event, data, origin) ==
  IF count = 0 THEN cx
  ELSE ForEachForwarder(Forwarder(cx, lk, event, data, origin),
                        lk, count - 1, event, data, origin)

\* BluetoothService.emit(event, data), with `count` callbacks registered
BS_emit(cx, lk, count, event, data, stale) ==
  LET cx1 == [cx EXCEPT !.produced =
                Append(@, [event |-> event, stale |-> stale])]
  IN ForEachForwarder(cx1, lk, count, event, data,
                      Origin(Len(cx1.produced), stale))

\* the name connectToServer's handlers re-emit a socket event under
Reemitted(type) ==
  CASE type = "connect" -> "connected"
    [] type = "disconnect" -> "disconnected"
    [] type = "new-message" -> "message"
    [] OTHER -> type

\* messages.forEach(msg => StorageService.addMessage(msg))
RECURSIVE AddAll(_, _)
AddAll(ls, msgs) ==
  IF msgs = <<>> THEN ls ELSE AddAll(AddMessage(ls, Head(msgs)), Tail(msgs))

\* a socket.on(...) handler of connectToServer (part_001 lines 272-317) run
\* with the socket's own 'connect' / 'disconnect' or a frame of the server
SocketHandler(cx, lk, frame) ==
  IF frame.type \in {"user-joined", "user-left"} THEN cx
  ELSE LET event == Reemitted(frame.type)
           cx1 == [cx EXCEPT !.produced =
                     Append(@, [event |-> event, stale |-> FALSE])]
           cx2 == CS_emit(cx1, lk, event, frame.data,
                          Origin(Len(cx1.produced), FALSE))
       IN IF frame.type = "new-message"
          THEN [cx2 EXCEPT !.ls = AddMessage(@, frame.data),
                           !.added = Append(@, frame.data)]
          ELSE IF frame.type = "room-history"
               THEN [cx2 EXCEPT !.ls = AddAll(@, frame.data),
                                !.added = @ \o frame.data]
               ELSE cx2

\* a join request is among the frames handed to the links
JoinIssued(frames) ==
  \E i \in DOMAIN frames : frames[i].type \in {"join-room", "system"}

\* the sockets a frame of the type was handed to
SocketsSentTo(frames, type) ==
  {frames[i].link : i \in {j \in DOMAIN frames : frames[j].type = type}}

\* what a synchronous run leaves behind
Commit(cx) ==
  /\ delivered' = cx.delivered
  /\ sent' = cx.sent
  /\ produced' = cx.produced
  /\ localStorage' = cx.ls
  /\ added' = cx.added
  /\ isConnected' = cx.isConnected
  /\ historyDue' = cx.historyDue \cup SocketsSentTo(cx.sent, "join-room")
  /\ inRoom' = cx.inRoom
  /\ roomLog' = cx.roomLog
  /\ unechoed' = cx.unechoed \cup SocketsSentTo(cx.sent, "send-message")
  /\ mine' = cx.mine
  /\ pendingJoin' = (cx.pendingJoin /\ ~JoinIssued(cx.sent))

InitClient ==
  /\ isOnline \in BOOLEAN
  /\ hasBluetooth \in BOOLEAN
  /\ hasWebRTC \in BOOLEAN
  /\ isOnline => (hasBluetooth /\ hasWebRTC)
  /\ socket = 0
  /\ sockets = <<>>
  /\ csListeners = NoListeners
  /\ device = 0
  /\ server = 0
  /\ characteristic = 0
  /\ chars = <<>>
  /\ webRTCDataChannel = 0
  /\ channels = <<>>
  /\ bsListeners = NoForwarders
  /\ tasks = <<>>
  /\ isConnected = FALSE
  /\ nextSub = 1
  /\ epoch = 0
  /\ now = 1
  /\ pendingWrites = 0
  /\ delivered = <<>>
  /\ sent = <<>>
  /\ produced = <<>>
  /\ historyDue = {}
  /\ inRoom = {}
  /\ roomLog = <<>>
  /\ unechoed = {}
  /\ mine = {}
  /\ pendingJoin = FALSE
  /\ typingTimeoutRef = 0
  /\ timers = <<>>
  /\ typingLog = <<>>

timerVars == <<typingTimeoutRef, timers, typingLog>>
envVars == <<isOnline, hasBluetooth, hasWebRTC>>
socketVars == <<socket, sockets>>
linkVars == <<device, server, characteristic, chars, webRTCDataChannel, channels>>

\* ChatRoom's effect registers its eight listeners (ChatRoom.tsx lines 60-91)
CS_on ==
  /\ nextSub <= MaxSubs
  /\ csListeners' = [e \in Vocabulary |-> Append(csListeners[e], nextSub)]
  /\ nextSub' = nextSub + 1
  /\ Commit(Context)
  /\ UNCHANGED <<envVars, timerVars, socketVars, linkVars, bsListeners, tasks, epoch, now,
                 pendingWrites, serverVars>>

\* the call of BluetoothService.initialize() up to its first await
NewTask ==
  [pc |-> IF hasBluetooth THEN "requestDevice" ELSE "unsupported",
   epoch |-> epoch, gatt |-> "none", char |-> 0, fallback |-> FALSE,
   result |-> "pending"]

\* ConnectionService.connect()
CS_connect ==
  /\ IF isOnline
     THEN /\ sockets' = Append(sockets, [state |-> "connecting", epoch |-> epoch,
                                     conns |-> 0])
          /\ socket' = Len(sockets) + 1
          /\ UNCHANGED tasks
     ELSE /\ tasks' = Append(tasks, NewTask)
          /\ UNCHANGED socketVars
  /\ Commit(Context)
  /\ UNCHANGED <<envVars, timerVars, csListeners, linkVars, bsListeners, epoch, now,
                 nextSub, pendingWrites, serverVars>>

\* a disconnect() that drops its reference and leaves the socket open
CloseSocket_LeaveOpen(socks, i) == socks

\* socket i after socket.disconnect()
CloseSocket(socks, i) == [socks EXCEPT ![i].state = "closed"]

\* BluetoothService.disconnect(): the fields it leaves
BS_disconnect ==
  /\ chars' = IF characteristic # 0
              THEN [chars EXCEPT ![characteristic].notifying = "stopped"]
              ELSE chars
  /\ characteristic' = 0
  /\ tasks' = IF server # 0 THEN [tasks EXCEPT ![server].gatt = "down"] ELSE tasks
  /\ server' = 0
  /\ channels' = IF webRTCDataChannel # 0
                 THEN [channels EXCEPT ![webRTCDataChannel].state = "closed"]
                 ELSE channels
  /\ webRTCDataChannel' = 0
  /\ device' = 0
  /\ bsListeners' = NoForwarders

\* ConnectionService.disconnect()
CS_disconnect ==
  /\ LET cx == [Context EXCEPT !.pendingJoin = FALSE,
                               !.historyDue = @ \ {socket},
                               !.inRoom = @ \ {socket},
                               !.unechoed = @ \ {socket}]
     IN IF socket # 0
        THEN /\ sockets' = CloseSocket(sockets, socket)
             /\ socket' = 0
             /\ Commit(IF sockets[socket].state = "connected"
                       THEN SocketHandler(cx,
                                          Links(socket, sockets', characteristic,
                                                webRTCDataChannel, channels),
                                          Frame("disconnect", <<>>))
                       ELSE cx)
        ELSE /\ UNCHANGED socketVars
             /\ Commit(cx)
  /\ IF ~isOnline
     THEN BS_disconnect
     ELSE UNCHANGED <<linkVars, bsListeners, tasks>>
  /\ csListeners' = NoListeners
  /\ epoch' = epoch + 1
  /\ UNCHANGED <<envVars, timerVars, now, nextSub, pendingWrites, serverVars>>

\* the socket reaches the server, which gives every connection a new
\* socket.id: its 'connect' handler runs
SocketConnect(i) ==
  /\ sockets[i].state = "connecting"
  /\ sockets' = [sockets EXCEPT ![i].state = "connected", ![i].conns = @ + 1]
  /\ Commit(SocketHandler(Context,
                          Links(socket, sockets', characteristic,
                                webRTCDataChannel, channels),
                          Frame("connect", <<>>)))
  /\ UNCHANGED <<envVars, timerVars, socket, csListeners, linkVars, bsListeners, tasks,
                 epoch, now, nextSub, pendingWrites, serverVars>>

\* the connection drops; socket.io-client keeps reconnecting
SocketDrop(i) ==
  /\ sockets[i].state = "connected"
  /\ sockets' = [sockets EXCEPT ![i].state = "connecting"]
  /\ Commit(SocketHandler([Context EXCEPT !.historyDue = @ \ {i},
                                          !.inRoom = @ \ {i},
                                          !.unechoed = @ \ {i}],
                          Links(socket, sockets', characteristic,
                                webRTCDataChannel, channels),
                          Frame("disconnect", <<>>)))
  /\ UNCHANGED <<envVars, timerVars, socket, csListeners, linkVars, bsListeners, tasks,
                 epoch, now, nextSub, pendingWrites, serverVars>>

\* the ids of the messages in an array
IdsOf(msgs) == {msgs[i].id : i \in DOMAIN msgs}

\* the server's side of socket i (part_000 lines 204-299): it answers a
\* join-room with the room's history, broadcasts each message it stamps once
\* to the sockets in the room, and sends error at any time
ServerSends(i, frame) ==
  CASE frame.type = "room-history" -> i \in historyDue /\ frame.data = roomLog
    [] frame.type = "new-message" ->
         /\ i \in inRoom /\ frame.data.id \notin IdsOf(roomLog)
         /\ frame.data.senderId[2] = i => i \in unechoed
    [] frame.type = "error" -> TRUE
    [] OTHER -> i \in inRoom

\* what the server knows after it has sent the frame to socket i
ServerSent(cx, i, frame) ==
  CASE frame.type = "room-history" ->
         [cx EXCEPT !.historyDue = @ \ {i}, !.inRoom = @ \cup {i}]
    [] frame.type = "new-message" ->
         [cx EXCEPT !.roomLog = Append(@, frame.data),
                    !.unechoed = IF frame.data.senderId[2] = i
                                 THEN @ \ {i} ELSE @]
    [] OTHER -> cx

\* a frame of the server arrives on a connected socket
ServerFrame(i, frame) ==
  /\ sockets[i].state = "connected"
  /\ ServerSends(i, frame)
  /\ Commit(SocketHandler(ServerSent(Context, i, frame), CurrentLinks, frame))
  /\ UNCHANGED <<envVars, timerVars, socketVars, csListeners, linkVars, bsListeners, tasks,
                 epoch, now, nextSub, pendingWrites, serverVars>>

\* the attempt of task t was torn down by a later disconnect()
Stale(t) == tasks[t].epoch < epoch

Finished(t, result, fallback) ==
  [tasks[t] EXCEPT !.pc = "done", !.result = result, !.fallback = fallback]

\* the catch block of initialize() (part_001 lines 71-77): initializeWebRTC()
\* and the rethrow, which lands in the catch block of connectToBluetooth
\* (lines 342-345)
FailPath(t, char, tsks) ==
  /\ tasks' = [tsks EXCEPT ![t] = Finished(t, "failed", TRUE)]
  /\ IF hasWebRTC
     THEN /\ channels' = Append(channels,
                                [state |-> "connecting", epoch |-> tasks[t].epoch])
          /\ webRTCDataChannel' = Len(channels) + 1
          /\ Commit(CS_emit(Context,
                            Links(socket, sockets, char, Len(channels) + 1,
                                  channels'),
                            "error", [message |-> "Bluetooth connection failed"],
                            Origin(0, Stale(t))))
     ELSE /\ UNCHANGED <<webRTCDataChannel, channels>>
          /\ LET lk == Links(socket, sockets, char, webRTCDataChannel, channels)
                 cx1 == BS_emit(Context, lk,
                                bsListeners["error"], "error",
                                [message |-> "Failed to establish local connection"],
                                Stale(t))
             IN Commit(CS_emit(cx1, lk, "error",
                               [message |-> "Bluetooth connection failed"],
                               Origin(0, Stale(t))))

\* initialize() threw before its try block (part_001 lines 37-39): only the
\* catch block of connectToBluetooth runs
TaskUnsupported(t) ==
  /\ tasks[t].pc = "unsupported"
  /\ tasks' = [tasks EXCEPT ![t] = Finished(t, "failed", FALSE)]
  /\ Commit(CS_emit(Context, CurrentLinks, "error",
                    [message |-> "Bluetooth connection failed"],
                    Origin(0, Stale(t))))
  /\ UNCHANGED <<envVars, timerVars, socketVars, csListeners, linkVars, bsListeners, epoch,
                 now, nextSub, pendingWrites, serverVars>>

\* the promise task t awaits is rejected
TaskReject(t) ==
  /\ tasks[t].pc \in Range(AwaitPoints)
  /\ FailPath(t, characteristic, tasks)
  /\ UNCHANGED <<envVars, timerVars, socketVars, csListeners, device, server,
                 characteristic, chars, bsListeners, epoch, now, nextSub,
                 pendingWrites, serverVars>>

\* requestDevice() resolved with a device that has a GATT server
RequestDeviceResolved(t) ==
  /\ tasks[t].pc = "requestDevice"
  /\ device' = t
  /\ tasks' = [tasks EXCEPT ![t].pc = "gattConnect"]
  /\ Commit(Context)
  /\ UNCHANGED <<envVars, timerVars, socketVars, csListeners, server, characteristic,
                 chars, webRTCDataChannel, channels, bsListeners, epoch, now,
                 nextSub, pendingWrites, serverVars>>

\* requestDevice() resolved with a device that has no GATT server: the throw
\* of line 49
RequestDeviceResolvedNoGatt(t) ==
  /\ tasks[t].pc = "requestDevice"
  /\ device' = t
  /\ FailPath(t, characteristic, tasks)
  /\ UNCHANGED <<envVars, timerVars, socketVars, csListeners, server, characteristic,
                 chars, bsListeners, epoch, now, nextSub, pendingWrites,
                 serverVars>>

\* device.gatt.connect() resolved
GattConnectResolved(t) ==
  /\ tasks[t].pc = "gattConnect"
  /\ server' = t
  /\ tasks' = [tasks EXCEPT ![t].pc = "getPrimaryService", ![t].gatt = "up"]
  /\ Commit(Context)
  /\ UNCHANGED <<envVars, timerVars, socketVars, csListeners, device, characteristic,
                 chars, webRTCDataChannel, channels, bsListeners, epoch, now,
                 nextSub, pendingWrites, serverVars>>

\* server.getPrimaryService() resolved: the GATT connection is still up
GetPrimaryServiceResolved(t) ==
  /\ tasks[t].pc = "getPrimaryService"
  /\ tasks[t].gatt = "up"
  /\ tasks' = [tasks EXCEPT ![t].pc = "getCharacteristic"]
  /\ Commit(Context)
  /\ UNCHANGED <<envVars, timerVars, socketVars, csListeners, linkVars, bsListeners,
                 epoch, now, nextSub, pendingWrites, serverVars>>

\* service.getCharacteristic() resolved; startNotifications() is called
GetCharacteristicResolved(t) ==
  /\ tasks[t].pc = "getCharacteristic"
  /\ tasks[t].gatt = "up"
  /\ chars' = Append(chars, [task |-> t, epoch |-> tasks[t].epoch,
                             notifying |-> "starting", listeners |-> 0])
  /\ characteristic' = Len(chars) + 1
  /\ tasks' = [tasks EXCEPT ![t].pc = "startNotifications",
                            ![t].char = Len(chars) + 1]
  /\ Commit(Context)
  /\ UNCHANGED <<envVars, timerVars, socketVars, csListeners, device, server,
                 webRTCDataChannel, channels, bsListeners, epoch, now, nextSub,
                 pendingWrites, serverVars>>

\* startNotifications() resolved: the rest of initialize() (part_001 lines
\* 65-69) and of connectToBluetooth (lines 325-340) run
StartNotificationsResolved(t) ==
  /\ tasks[t].pc = "startNotifications"
  /\ tasks[t].gatt = "up"
  /\ LET started == IF chars[tasks[t].char].notifying = "starting"
                    THEN [chars EXCEPT ![tasks[t].char].notifying = "yes"]
                    ELSE chars
     IN IF characteristic = 0
        THEN \* this.characteristic is null: addEventListener throws
             /\ chars' = started
             /\ FailPath(t, characteristic, tasks)
             /\ UNCHANGED bsListeners
        ELSE /\ chars' = [started EXCEPT ![characteristic].listeners = @ + 1]
             /\ tasks' = [tasks EXCEPT ![t] = Finished(t, "ok", FALSE)]
             /\ bsListeners' = [e \in BSEvents |-> bsListeners[e] + 1]
             /\ LET lk == Links(socket, sockets, characteristic,
                                webRTCDataChannel, channels)
                    cx1 == BS_emit(Context, lk, bsListeners["connected"],
                                   "connected", <<>>, Stale(t))
                IN Commit(CS_emit(cx1, lk, "room-history", GetMessages(cx1.ls),
                                  Origin(0, Stale(t))))
             /\ UNCHANGED <<webRTCDataChannel, channels>>
  /\ UNCHANGED <<envVars, timerVars, socketVars, csListeners, device, server,
                 characteristic, epoch, now, nextSub, pendingWrites, serverVars>>

\* handleIncomingMessage run once per listener added to the characteristic
RECURSIVE HandleIncomingMessage(_, _, _, _, _)
HandleIncomingMessage(cx, lk, times, frame, stale) ==
  IF times = 0 THEN cx
  ELSE HandleIncomingMessage(
         IF frame.ok
         THEN BS_emit(cx, lk, bsListeners["message"], "message", frame.value, stale)
         ELSE cx,
         lk, times - 1, frame, stale)

\* a notification of characteristic c arrives
RadioNotify(c, frame) ==
  /\ chars[c].notifying = "yes"
  /\ chars[c].listeners > 0
  /\ tasks[chars[c].task].gatt = "up"
  /\ Commit(HandleIncomingMessage(Context,
                                  CurrentLinks, chars[c].listeners,
                                  frame, chars[c].epoch < epoch))
  /\ UNCHANGED <<envVars, timerVars, socketVars, csListeners, linkVars, bsListeners, tasks,
                 epoch, now, nextSub, pendingWrites, serverVars>>

\* dataChannel.onopen
ChannelOpened(ch) ==
  /\ channels[ch].state = "connecting"
  /\ channels' = [channels EXCEPT ![ch].state = "open"]
  /\ Commit(BS_emit(Context,
                    Links(socket, sockets, characteristic, webRTCDataChannel,
                          channels'),
                    bsListeners["connected"], "connected", <<>>,
                    channels[ch].epoch < epoch))
  /\ UNCHANGED <<envVars, timerVars, socketVars, csListeners, device, server,
                 characteristic, chars, webRTCDataChannel, bsListeners, tasks,
                 epoch, now, nextSub, pendingWrites, serverVars>>

\* dataChannel.onmessage
ChannelMessage(ch, frame) ==
  /\ channels[ch].state = "open"
  /\ Commit(IF frame.ok
            THEN BS_emit(Context, CurrentLinks, bsListeners["message"],
                         "message", frame.value, channels[ch].epoch < epoch)
            ELSE Context)
  /\ UNCHANGED <<envVars, timerVars, socketVars, csListeners, linkVars, bsListeners, tasks,
                 epoch, now, nextSub, pendingWrites, serverVars>>

\* ConnectionService.sendMessage(message, roomCode): what it leaves behind
SendMessageRun(cx, lk, message, roomCode) ==
  LET messageData == [id |-> now, text |-> message, sender |-> "You",
                      senderId |-> GetSocketId(lk),
                      roomCode |-> roomCode]
  IN IF SocketConnected(lk)
     THEN [cx EXCEPT !.sent =
             @ \o <<Sent("socket", socket, "send-message",
                         [message |-> message, roomCode |-> roomCode])>>]
     ELSE IF ~isOnline
     THEN LET cx1 == \* BluetoothService.sendMessage(messageData)
                IF characteristic # 0
                THEN [cx EXCEPT !.sent =
                        @ \o <<Sent("characteristic", characteristic, "message",
                                    messageData)>>]
                ELSE IF ChannelOpen(lk)
                     THEN [cx EXCEPT !.sent =
                             @ \o <<Sent("channel", webRTCDataChannel, "message",
                                         messageData)>>]
                     ELSE BS_emit(cx, lk,
                                  bsListeners["error"], "error",
                                  [message |-> "Failed to send message"], FALSE)
              cx2 == [cx1 EXCEPT !.ls = AddMessage(@, messageData),
                                 !.added = Append(@, messageData),
                                 !.mine = @ \cup {messageData}]
          IN CS_emit(cx2, lk, "message", messageData, Origin(0, FALSE))
     ELSE cx

\* the writeValue() promises outstanding after sendMessage
WritesAfterSend(lk) ==
  IF ~SocketConnected(lk) /\ ~isOnline /\ characteristic # 0
  THEN pendingWrites + 1 ELSE pendingWrites

\* a caller invokes ConnectionService.sendMessage(message, roomCode)
CS_sendMessage(message, roomCode) ==
  /\ pendingWrites < MaxWrites
  /\ Commit(SendMessageRun(Context, CurrentLinks, message, roomCode))
  /\ pendingWrites' = WritesAfterSend(CurrentLinks)
  /\ UNCHANGED <<envVars, socketVars, csListeners, linkVars, bsListeners,
                 tasks, epoch, now, nextSub, serverVars>>

\* a caller invokes ConnectionService.joinRoom(userName, roomCode)
CS_joinRoomCall(userName, roomCode) ==
  LET frames == CS_joinRoom(CurrentLinks, userName, roomCode)
  IN /\ Commit([Context EXCEPT !.sent = frames,
                                                 !.pendingJoin = TRUE])
     /\ UNCHANGED <<envVars, timerVars, socketVars, csListeners, linkVars, bsListeners,
                    tasks, epoch, now, nextSub, pendingWrites, serverVars>>

\* mutant of TypingRun: the signal is also written to the direct link
TypingRun_AnyLink(cx, lk, kind, roomCode) ==
  IF SocketConnected(lk)
  THEN [cx EXCEPT !.sent = @ \o <<Sent("socket", socket, kind,
                                       [roomCode |-> roomCode])>>]
  ELSE [cx EXCEPT !.sent = @ \o BS_broadcastSystemMessage(lk, kind)]

\* ConnectionService.startTyping / stopTyping(roomCode): the frames sent
TypingRun(cx, lk, kind, roomCode) ==
  IF SocketConnected(lk)
  THEN [cx EXCEPT !.sent = @ \o <<Sent("socket", socket, kind,
                                       [roomCode |-> roomCode])>>]
  ELSE cx

\* a caller invokes ConnectionService.startTyping / stopTyping(roomCode)
CS_typing(kind, roomCode) ==
  /\ Commit(TypingRun(Context, CurrentLinks, kind, roomCode))
  /\ UNCHANGED <<envVars, socketVars, csListeners, linkVars, bsListeners, tasks,
                 epoch, now, nextSub, pendingWrites, serverVars>>

\* the writeValue() that BluetoothService.sendMessage awaits settles
WriteSettled(ok) ==
  /\ pendingWrites > 0
  /\ pendingWrites' = pendingWrites - 1
  /\ Commit(IF ok THEN Context
            ELSE BS_emit(Context, CurrentLinks, bsListeners["error"], "error",
                         [message |-> "Failed to send message"], FALSE))
  /\ UNCHANGED <<envVars, timerVars, socketVars, csListeners, linkVars, bsListeners, tasks,
                 epoch, now, nextSub, serverVars>>

\* the countdown of handleTyping: setTimeout(..., 1000), in clock ticks
TypingInterval == 2

\* an entry of the typing log: what happened, what caused it, when, and
\* whether a direct link was up
Logged(what, by) ==
  [what |-> what, by |-> by, at |-> now,
   direct |-> ~isOnline /\ (characteristic # 0 \/ ChannelOpen(CurrentLinks))]

\* mutant of ClearTimeout: the previous countdown is left running
ClearTimeout_Keep(tm, ref) == tm

\* clearTimeout(typingTimeoutRef.current)
ClearTimeout(tm, ref) ==
  IF ref # 0 /\ tm[ref].state = "pending"
  THEN [tm EXCEPT ![ref].state = "cleared"]
  ELSE tm

\* ChatRoom.handleTyping (ChatRoom.tsx lines 127-141), called by the input's
\* onChange on every keypress
HandleTyping ==
  /\ IF isConnected
     THEN /\ Commit(TypingRun(Context, CurrentLinks, "typing-start",
                              User.roomCode))
          /\ timers' = Append(ClearTimeout(timers, typingTimeoutRef),
                              [due |-> now + TypingInterval, state |-> "pending"])
          /\ typingTimeoutRef' = Len(timers) + 1
          /\ typingLog' = typingLog \o <<Logged("key", "handled"),
                                         Logged("typing-start", "key")>>
     ELSE /\ Commit(Context)
          /\ UNCHANGED <<typingTimeoutRef, timers>>
          /\ typingLog' = Append(typingLog, Logged("key", "ignored"))
  /\ UNCHANGED <<envVars, socketVars, csListeners, linkVars, bsListeners, tasks,
                 epoch, now, nextSub, pendingWrites, serverVars>>

\* the callback of handleTyping's setTimeout runs (ChatRoom.tsx lines 136-138)
TimerFires(t) ==
  /\ timers[t].state = "pending"
  /\ timers[t].due <= now
  /\ Commit(TypingRun(Context, CurrentLinks, "typing-stop", User.roomCode))
  /\ timers' = [timers EXCEPT ![t].state = "fired"]
  /\ typingLog' = Append(typingLog, Logged("typing-stop", "timer"))
  /\ UNCHANGED <<envVars, socketVars, csListeners, linkVars, bsListeners, tasks,
                 epoch, now, nextSub, pendingWrites, typingTimeoutRef,
                 serverVars>>

\* ChatRoom.handleSendMessage (ChatRoom.tsx lines 107-118) with newMessage in
\* the input
HandleSendMessage(newMessage) ==
  /\ IF Trim(newMessage) # <<>> /\ isConnected
     THEN /\ pendingWrites < MaxWrites
          /\ Commit(TypingRun(SendMessageRun(Context, CurrentLinks,
                                             Trim(newMessage), User.roomCode),
                              CurrentLinks, "typing-stop", User.roomCode))
          /\ pendingWrites' = WritesAfterSend(CurrentLinks)
          /\ timers' = ClearTimeout(timers, typingTimeoutRef)
          /\ typingLog' = Append(typingLog, Logged("typing-stop", "send"))
     ELSE /\ Commit(Context)
          /\ UNCHANGED <<pendingWrites, timers, typingLog>>
  /\ UNCHANGED <<envVars, socketVars, csListeners, linkVars, bsListeners, tasks,
                 epoch, now, nextSub, typingTimeoutRef, serverVars>>

\* no countdown is overdue: the timers run when they are due
TimersOnTime == \A t \in DOMAIN timers :
  timers[t].state = "pending" => timers[t].due > now

\* Date.now() advances
Tick ==
  /\ now < MaxNow
  /\ now' = now + 1
  /\ Commit(Context)
  /\ UNCHANGED <<envVars, timerVars, socketVars, csListeners, linkVars, bsListeners, tasks,
                 epoch, nextSub, pendingWrites, serverVars>>

\* the messages of this client that the server echoes on socket i
OwnEcho(i) ==
  [id |-> 1, text |-> <<"h", "i">>, sender |-> User.name,
   senderId |-> SocketId(i, sockets[i].conns), roomCode |-> User.roomCode]

\* the frames the server sends to socket i in a message exchange
ExchangeFrames(i) ==
  {Frame("new-message", RemoteMessage),
   Frame("new-message", OwnEcho(i)),
   Frame("room-history", roomLog),
   Frame("error", [message |-> "Unauthorized"])}

\* the connection life cycle of the client
NextClient ==
  \/ CS_on
  \/ Len(sockets) + Len(tasks) < MaxConnects /\ CS_connect
  \/ epoch < MaxDisconnects /\ CS_disconnect
  \/ \E i \in DOMAIN sockets : SocketConnect(i)
  \/ \E i \in DOMAIN sockets : sockets[i].conns <= MaxReconnects /\ SocketDrop(i)
  \/ Len(added) < MaxInbound
       /\ \E i \in DOMAIN sockets, frame \in ServerFrames : ServerFrame(i, frame)
  \/ \E t \in DOMAIN tasks : TaskUnsupported(t)
  \/ \E t \in DOMAIN tasks : TaskReject(t)
  \/ \E t \in DOMAIN tasks : RequestDeviceResolved(t)
  \/ \E t \in DOMAIN tasks : RequestDeviceResolvedNoGatt(t)
  \/ \E t \in DOMAIN tasks : GattConnectResolved(t)
  \/ \E t \in DOMAIN tasks : GetPrimaryServiceResolved(t)
  \/ \E t \in DOMAIN tasks : GetCharacteristicResolved(t)
  \/ \E t \in DOMAIN tasks : StartNotificationsResolved(t)
  \/ Len(added) < MaxInbound
       /\ \E c \in DOMAIN chars, frame \in InboundFrames : RadioNotify(c, frame)
  \/ \E ch \in DOMAIN channels : ChannelOpened(ch)
  \/ Len(added) < MaxInbound
       /\ \E ch \in DOMAIN channels, frame \in InboundFrames :
            ChannelMessage(ch, frame)
  \/ Len(added) < MaxInbound
       /\ \E t \in ClientTexts : CS_sendMessage(t, User.roomCode)
       /\ UNCHANGED timerVars
  \/ CS_joinRoomCall(User.name, User.roomCode)
  \/ \E kind \in {"typing-start", "typing-stop"} :
       CS_typing(kind, User.roomCode) /\ UNCHANGED timerVars
  \/ \E ok \in BOOLEAN : WriteSettled(ok)

\* the message exchange of the client over one connection
NextMessaging ==
  \/ CS_on
  \/ Len(sockets) + Len(tasks) < MaxSessions /\ CS_connect
  \/ \E i \in DOMAIN sockets : SocketConnect(i)
  \/ \E i \in DOMAIN sockets : sockets[i].conns <= MaxReconnects /\ SocketDrop(i)
  \/ Len(added) < MaxStored
       /\ \E i \in DOMAIN sockets :
            \E frame \in ExchangeFrames(i) : ServerFrame(i, frame)
  \/ \E t \in DOMAIN tasks : TaskUnsupported(t)
  \/ \E t \in DOMAIN tasks : TaskReject(t)
  \/ \E t \in DOMAIN tasks : RequestDeviceResolved(t)
  \/ \E t \in DOMAIN tasks : GattConnectResolved(t)
  \/ \E t \in DOMAIN tasks : GetPrimaryServiceResolved(t)
  \/ \E t \in DOMAIN tasks : GetCharacteristicResolved(t)
  \/ \E t \in DOMAIN tasks : StartNotificationsResolved(t)
  \/ Len(added) < MaxStored
       /\ \E c \in DOMAIN chars, frame \in InboundFrames : RadioNotify(c, frame)
  \/ \E ch \in DOMAIN channels : ChannelOpened(ch)
  \/ Len(added) < MaxStored
       /\ \E ch \in DOMAIN channels, frame \in InboundFrames :
            ChannelMessage(ch, frame)
  \/ Len(added) < MaxStored
       /\ \E t \in ClientTexts \cup BlankTexts : CS_sendMessage(t, User.roomCode)
       /\ UNCHANGED timerVars
  \/ \E ok \in BOOLEAN : WriteSettled(ok)
  \/ Tick

\* connecting and disconnecting, with repeated calls of disconnect()
NextTeardown ==
  \/ CS_on
  \/ Len(sockets) + Len(tasks) < MaxConnects /\ CS_connect
  \/ epoch < MaxTeardowns /\ CS_disconnect
  \/ \E i \in DOMAIN sockets : SocketConnect(i)
  \/ \E i \in DOMAIN sockets : sockets[i].conns <= MaxReconnects /\ SocketDrop(i)
  \/ \E t \in DOMAIN tasks : TaskUnsupported(t)
  \/ \E t \in DOMAIN tasks : TaskReject(t)
  \/ \E t \in DOMAIN tasks : RequestDeviceResolved(t)
  \/ \E t \in DOMAIN tasks : RequestDeviceResolvedNoGatt(t)
  \/ \E t \in DOMAIN tasks : GattConnectResolved(t)
  \/ \E t \in DOMAIN tasks : GetPrimaryServiceResolved(t)
  \/ \E t \in DOMAIN tasks : GetCharacteristicResolved(t)
  \/ \E t \in DOMAIN tasks : StartNotificationsResolved(t)
  \/ \E ch \in DOMAIN channels : ChannelOpened(ch)

\* the typing indicator of ChatRoom over one connection
NextIndicator ==
  \/ CS_on
  \/ Len(sockets) + Len(tasks) < MaxSessions /\ CS_connect
  \/ \E i \in DOMAIN sockets : SocketConnect(i)
  \/ \E i \in DOMAIN sockets : sockets[i].conns <= MaxReconnects /\ SocketDrop(i)
  \/ \E t \in DOMAIN tasks : RequestDeviceResolved(t)
  \/ \E t \in DOMAIN tasks : GattConnectResolved(t)
  \/ \E t \in DOMAIN tasks : GetPrimaryServiceResolved(t)
  \/ \E t \in DOMAIN tasks : GetCharacteristicResolved(t)
  \/ \E t \in DOMAIN tasks : StartNotificationsResolved(t)
  \/ Len(typingLog) < MaxTypingLog
       /\ \E kind \in {"typing-start", "typing-stop"} :
            /\ CS_typing(kind, User.roomCode)
            /\ typingLog' = Append(typingLog, Logged(kind, "call"))
            /\ UNCHANGED <<typingTimeoutRef, timers>>
  \/ Len(typingLog) < MaxTypingLog /\ HandleTyping
  \/ \E t \in DOMAIN timers : TimerFires(t)
  \/ Len(typingLog) < MaxTypingLog /\ Len(added) < MaxInbound
       /\ \E t \in ClientTexts \cup BlankTexts : HandleSendMessage(t)
  \/ TimersOnTime /\ Tick

EmptyStore ==
  /\ localStorage = <<>>
  /\ added = <<>>

\* a client that is never started
IdleClient == InitClient /\ isOnline

InitOfServer == InitServer /\ EmptyStore /\ IdleClient

InitOfStore == InitServer /\ InitStore /\ IdleClient

InitOfClient == InitServer /\ EmptyStore /\ InitClient

SpecServer == InitOfServer /\ [][NextServer]_vars

SpecStore == InitOfStore /\ [][NextStore]_vars

SpecTyping == InitOfServer /\ [][NextTyping]_vars

SpecClient == InitOfClient /\ [][NextClient]_vars

InitOfMessaging == InitServer /\ EmptyStore /\ InitClient

SpecMessaging == InitOfMessaging /\ [][NextMessaging]_vars

InitOfTeardown == InitServer /\ EmptyStore /\ InitClient

SpecTeardown == InitOfTeardown /\ [][NextTeardown]_vars

InitOfIndicator == InitServer /\ EmptyStore /\ InitClient

\* a message an earlier session has left in the Local Store
EarlierMessage(roomCode) == [RemoteMessage EXCEPT !.roomCode = roomCode]

\* the logs earlier sessions, in the user's room and in another, have left
EarlierLogs ==
  {<<>>,
   <<EarlierMessage("ABCD")>>,
   <<EarlierMessage("ABCD"), EarlierMessage("WXYZ")>>}

\* localStorage outlives the page: the store when this session starts
EarlierStore ==
  \E log \in EarlierLogs :
    /\ localStorage = IF log = <<>> THEN <<>>
                      ELSE SetItem(<<>>, MESSAGES_KEY, JSONStringify(log))
    /\ added = <<>>

InitOfHistory == InitServer /\ EarlierStore /\ InitClient

\* the message exchange of a client that starts with the store of earlier
\* sessions
SpecHistory == InitOfHistory /\ [][NextMessaging]_vars

SpecIndicator == InitOfIndicator /\ [][NextIndicator]_vars

(***************************************************************************)
(* Claims about the Room Session, checked under SpecServer.                *)
(***************************************************************************)
\* the stamped message a send-message step appended, if it appended one
LastOf(seq) == seq[Len(seq)]

HistoryOf(msgs, r) == IF MapHas(msgs, r) THEN msgs[r] ELSE <<>>

\* C1: a send-message{message, roomCode} from connection c is accepted
\* (stamped, appended to the room's history, broadcast as new-message) if and
\* only if c has joined and its most recent join named roomCode; otherwise it
\* gets an 'Unauthorized' error frame and nothing is recorded.
C1_SendAcceptedIffLastJoin ==
  [][lastEv'.type = "send-message" =>
       LET s == lastEv'.conn
           r == lastEv'.roomCode
       IN IF lastJoin[s].roomCode = r
          THEN /\ HistoryOf(messages', r) # <<>>
               /\ LET m == LastOf(messages'[r])
                  IN /\ messages'[r] = Append(HistoryOf(messages, r), m)
                     /\ m.id = nextUuid /\ nextUuid' = nextUuid + 1
                     /\ m.text = lastEv'.message
                     /\ m.senderId = s
                     /\ m.roomCode = r
                     /\ emitted'[s] = <<Frame("new-message", m)>>
               /\ \A q \in Rooms \ {r} : HistoryOf(messages', q) = HistoryOf(messages, q)
          ELSE /\ emitted'[s] = <<Frame("error", [message |-> "Unauthorized"])>>
               /\ messages' = messages
               /\ \A c \in Conns \ {s} : emitted'[c] = <<>>
  ]_vars

\* C1 witness: a connection whose most recent join named another room than
\* the one it claims (and which is still in the claimed room's member set)
\* gets the Unauthorized frame.
C1_Witness ==
  /\ lastEv.type = "send-message"
  /\ lastJoin[lastEv.conn].roomCode \in Rooms \ {lastEv.roomCode}
  /\ MapHas(rooms, lastEv.roomCode)
  /\ lastEv.conn \in Range(rooms[lastEv.roomCode].users)
  /\ emitted[lastEv.conn] = <<Frame("error", [message |-> "Unauthorized"])>>

\* C2: the room-history frame a joining connection receives holds exactly the
\* messages recorded in that room since the room was created, in the order
\* recorded, each with the sender name and text it was sent with; every one
\* of them is a message of that room, stamped before the join.
C2_HistoryIsRoomLog ==
  lastEv.type = "join-room" =>
    LET s == lastEv.conn
        r == lastEv.roomCode
    IN /\ emitted[s] # <<>>
       /\ emitted[s][1].type = "room-history"
       /\ emitted[s][1].data = recorded[r]
       /\ \A i \in 1..Len(emitted[s][1].data) :
            /\ emitted[s][1].data[i].roomCode = r
            /\ emitted[s][1].data[i].id < nextUuid

\* C2 witness: a join that is answered with another connection's message
\* while the other room holds a message of its own.
C2_Witness ==
  /\ lastEv.type = "join-room"
  /\ Len(emitted[lastEv.conn][1].data) = 1
  /\ emitted[lastEv.conn][1].data[1].senderId # lastEv.conn
  /\ \E q \in Rooms \ {lastEv.roomCode} : HistoryOf(messages, q) # <<>>

\* C3: an accepted message is delivered as new-message to every connection
\* that is a member of the room when it is recorded, the sender included; and
\* every member of a room has been delivered each message of the room, in the
\* room-history of a join or as a new-message.
C3_MembersMissNothing ==
  /\ (lastEv.type = "send-message"
        /\ lastJoin[lastEv.conn].roomCode = lastEv.roomCode) =>
       LET r == lastEv.roomCode
           m == LastOf(recorded[r])
       IN \A c \in Conns :
            (\/ c = lastEv.conn
             \/ (MapHas(users, c) /\ users[c].roomCode = r)
             \/ (sockState[c] = "open" /\ c \in Range(rooms[r].users)))
            => \E i \in 1..Len(emitted[c]) :
                 /\ emitted[c][i].type = "new-message"
                 /\ emitted[c][i].data = m
  /\ \A c \in DOMAIN users :
       \A i \in 1..Len(recorded[users[c].roomCode]) :
         recorded[users[c].roomCode][i].id \in seen[c]

\* C3 witness: a message is accepted in a room that has two members, one of
\* which joined after an earlier message of the room.
C3_Witness ==
  /\ lastEv.type = "send-message"
  /\ lastJoin[lastEv.conn].roomCode = lastEv.roomCode
  /\ Len(recorded[lastEv.roomCode]) = 2
  /\ \A c \in Conns : MapHas(users, c) /\ users[c].roomCode = lastEv.roomCode
  /\ \E c \in Conns : emitted[c] # <<>> /\ recorded[lastEv.roomCode][1].senderId # c

\* the open connections in a room's member set
LiveMembers(r) ==
  IF MapHas(rooms, r)
  THEN {c \in Range(rooms[r].users) : sockState[c] = "open"}
  ELSE {}

\* C4: when the last member of a room has left, the room and its history are
\* gone from the registries, and a join to a room without live members is
\* answered with an empty room-history.
C4_LastLeaveDeletesRoom ==
  [][/\ \A r \in Rooms :
          LiveMembers(r)' = {} => ~MapHas(rooms', r) /\ ~MapHas(messages', r)
     /\ (lastEv'.type = "join-room" /\ LiveMembers(lastEv'.roomCode) = {}) =>
          emitted'[lastEv'.conn][1] = Frame("room-history", <<>>)
  ]_vars

(***************************************************************************)
(* Claims about the Local Store, checked under SpecStore.                  *)
(***************************************************************************)
Min(a, b) == IF a <= b THEN a ELSE b

\* C5: after any number of addMessage calls the stored log holds at most
\* 1000 entries and equals the last min(n, 1000) added messages, in insertion
\* order (the oldest entries are the ones evicted).
C5_LogIsLastThousand ==
  LET log == GetMessages(localStorage)
      n == Len(added)
      k == Min(n, 1000)
  IN /\ Len(log) <= 1000
     /\ Len(log) = k
     /\ \A i \in 1..k : log[i] = added[n - k + i]

\* C5 witness: more than 1000 messages were added and the log is full.
C5_Witness ==
  /\ Len(added) > 1000
  /\ Len(GetMessages(localStorage)) = 1000
  /\ GetMessages(localStorage)[1].id = Len(added) - 999

(***************************************************************************)
(* Claims about the Coordinator and its transports, checked under          *)
(* SpecClient.                                                             *)
(***************************************************************************)
\* C6: after ConnectionService.disconnect() has returned, no subscriber
\* callback is invoked for an event that comes from the transport or the
\* connect attempt that this disconnect() tore down, even when the transport
\* callback or the pending initialize() completes after the disconnect.
C6_NoDeliveryAfterDisconnect ==
  \A i \in DOMAIN delivered : ~delivered[i].stale

\* the frames of the last step that were handed to a link of an attempt
\* that an earlier disconnect() tore down
SentOnTornDownLink ==
  {i \in DOMAIN sent :
     \/ sent[i].via = "characteristic" /\ chars[sent[i].link].epoch < epoch
     \/ sent[i].via = "channel" /\ channels[sent[i].link].epoch < epoch
     \/ sent[i].via = "socket" /\ sockets[sent[i].link].epoch < epoch}

\* C7: disconnect() cancels a pending attempt: whatever the attempts that were
\* in flight at a disconnect() do when they complete, the transport holds no
\* GATT characteristic, no active notifications, no open data channel and no
\* live socket of such an attempt, and no join is sent on its links.
C7_DisconnectCancelsPending ==
  /\ characteristic # 0 => chars[characteristic].epoch = epoch
  /\ \A c \in DOMAIN chars :
       chars[c].notifying = "yes" => chars[c].epoch = epoch
  /\ \A ch \in DOMAIN channels :
       channels[ch].state = "open" => channels[ch].epoch = epoch
  /\ \A i \in DOMAIN sockets :
       sockets[i].state # "closed" => sockets[i].epoch = epoch
  /\ \A i \in SentOnTornDownLink : sent[i].type \notin {"join-room", "system"}

\* C8: every initialize() that failed, whatever the cause, has started the
\* fallback data-channel path, and a message sent while the fallback channel
\* is open is written to that channel.
C8_FallbackOnPrimaryFailure ==
  /\ \A t \in DOMAIN tasks : tasks[t].result = "failed" => tasks[t].fallback
  /\ \A i \in DOMAIN sent :
       (sent[i].type = "message" /\ ChannelOpen(CurrentLinks))
         => sent[i].via = "channel"

\* the subscribers of the Coordinator
Subscribers == UNION {Range(csListeners[e]) : e \in Vocabulary}

\* the transport events of the last step a subscriber was called with
EventsTo(sub) ==
  LET calls == SelectSeq(delivered,
                         LAMBDA d : d.sub = sub /\ d.n > 0 /\ ~d.stale)
  IN [i \in DOMAIN calls |-> calls[i].event]

\* the events the active transport produced in the last step
ProducedByActive ==
  LET live == SelectSeq(produced, LAMBDA p : ~p.stale)
  IN [i \in DOMAIN live |-> live[i].event]

\* connect() has activated a transport that no disconnect() has torn down
TransportActive ==
  \/ \E i \in DOMAIN sockets : sockets[i].epoch = epoch
  \/ \E t \in DOMAIN tasks : tasks[t].epoch = epoch

\* C9: every event of the vocabulary that the active transport produces is
\* delivered to every subscriber, in the order produced and with none
\* dropped; a direct link that reaches its connected state gives the
\* subscribers a `connected` event.
C9_EveryTransportEventDelivered ==
  TransportActive => \A sub \in Subscribers : EventsTo(sub) = ProducedByActive

\* the transport connections that are live
LiveSockets == {i \in DOMAIN sockets : sockets[i].state # "closed"}

LiveChars == {c \in DOMAIN chars : chars[c].notifying \in {"starting", "yes"}}

LiveChannels == {ch \in DOMAIN channels : channels[ch].state # "closed"}

\* C10: connect() is idempotent: after any number of connect() calls at most
\* one socket, or one direct link, is live, and each transport event reaches
\* each subscriber once.
C10_ConnectIdempotent ==
  /\ Cardinality(LiveSockets) <= 1
  /\ Cardinality(LiveChars) <= 1
  /\ Cardinality(LiveChannels) <= 1
  /\ \A i, j \in DOMAIN delivered :
       (i # j /\ delivered[i].sub = delivered[j].sub /\ delivered[i].n > 0)
         => delivered[i].n # delivered[j].n

\* the connect attempt of the current epoch has completed: the socket is
\* connected, or initialize() has returned, or the fallback channel is open
ConnectionComplete ==
  \/ SocketConnected(CurrentLinks)
  \/ \E t \in DOMAIN tasks :
       tasks[t].epoch = epoch /\ tasks[t].pc = "done" /\ tasks[t].result = "ok"
  \/ ChannelOpen(CurrentLinks)

\* C11: a joinRoom call made while the transport is not ready is buffered and
\* issued once the connection completes: when the connection is complete, no
\* joinRoom call is left without a join request on a transport.
C11_JoinIsBuffered ==
  ConnectionComplete => ~pendingJoin

\* the text of a chat message handed to a link
SentText(frame) ==
  IF frame.type = "send-message" THEN frame.data.message ELSE frame.data.text

\* C12: the Coordinator's send rejects empty and whitespace-only text: no
\* frame with such a text is handed to a transport, and no message of the
\* local user with such a text is written to the Local Store or emitted.
C12_SendRejectsBlankText ==
  /\ \A i \in DOMAIN sent :
       sent[i].type \in {"send-message", "message"}
         => Trim(SentText(sent[i])) # <<>>
  /\ \A i \in DOMAIN added :
       added[i].sender = "You" => Trim(added[i].text) # <<>>
  /\ \A i \in DOMAIN delivered :
       (delivered[i].event = "message" /\ delivered[i].n = 0)
         => Trim(delivered[i].data.text) # <<>>

\* the calls of the last step that gave a subscriber the local user's own
\* message while the activated direct link had neither a characteristic nor
\* an open fallback channel: a send that found no link
NoLinkSends ==
  {i \in DOMAIN delivered :
     /\ delivered[i].event = "message" /\ delivered[i].n = 0
     /\ characteristic = 0 /\ ~ChannelOpen(CurrentLinks)
     /\ TransportActive}

\* C13: a direct-link send that finds neither the radio channel nor the
\* fallback channel open is reported to the subscribers as an `error` event,
\* and the message is still written to the Local Store and delivered to the
\* subscribers as a `message` event.
C13_NoLinkSendReportedAndKept ==
  \A i \in NoLinkSends :
    /\ \E j \in DOMAIN delivered :
         delivered[j].event = "error" /\ delivered[j].sub = delivered[i].sub
    /\ added # <<>> /\ LastOf(added) = delivered[i].data

\* C14: on the relay path the Local Store holds at most one copy of each
\* server-stamped message id, whatever the sends, new-message echoes and
\* room-history pushes (a reconnect or re-join re-delivers the history).
C14_RelayStoreHasNoDuplicates ==
  isOnline =>
    \A i, j \in DOMAIN GetMessages(localStorage) :
      GetMessages(localStorage)[i].id = GetMessages(localStorage)[j].id => i = j

\* the message was sent by the local user: sendMessage built it for the
\* direct link, or the server stamped it with the id of one of this
\* client's connections
SentByLocalUser(m) ==
  \/ m \in mine
  \/ m.senderId[1] = "socket" /\ m.senderId[2] \in DOMAIN sockets

\* the messages a subscriber call carried, each with its "is mine" flag
Flagged(d) ==
  IF d.event = "message" THEN {<<d.data, d.isOwn[1]>>}
  ELSE IF d.event = "room-history"
       THEN {<<d.data[k], d.isOwn[k]>> : k \in DOMAIN d.data}
       ELSE {}

\* C15: on the relay and on the direct-link path every message delivered to
\* the subscribers is flagged "is mine" exactly when the local user sent it.
C15_IsMineIffSentByLocalUser ==
  \A i \in DOMAIN delivered :
    \A f \in Flagged(delivered[i]) : f[2] = SentByLocalUser(f[1])

\* the positions of the stored log that hold a message the local user sent on
\* the direct link: each sendMessage call stores one message
OwnSends == {i \in DOMAIN added : added[i] \in mine}

\* C16: message ids are unique per message: two messages the Coordinator has
\* generated for the direct link, also in quick succession, never share an id.
C16_MessageIdsUnique ==
  \A i, j \in OwnSends : added[i].id = added[j].id => i = j

(***************************************************************************)
(* Claims about repeated disconnect() calls, checked under SpecTeardown.   *)
(***************************************************************************)
\* the fields of the ConnectionService, of its BluetoothService and of the
\* objects they hold, the Local Store and ChatRoom's connection state
ObjectState ==
  <<socket, sockets, csListeners, device, server, characteristic, chars,
    webRTCDataChannel, channels, bsListeners, tasks, pendingWrites,
    isConnected, localStorage>>

\* no transport is held and no subscriber is registered
TornDown ==
  /\ socket = 0
  /\ device = 0
  /\ server = 0
  /\ characteristic = 0
  /\ webRTCDataChannel = 0
  /\ csListeners = NoListeners
  /\ bsListeners = NoForwarders

\* C17: disconnect() can be called in every state; it closes the transport
\* the Coordinator holds (socket, GATT server, notifications, data channel),
\* leaves no transport held and no subscriber registered, and a call in a
\* state that is already torn down leaves the state unchanged.
C17_DisconnectIdempotent ==
  [][epoch' = epoch + 1 =>
       /\ TornDown'
       /\ socket # 0 => sockets'[socket].state = "closed"
       /\ characteristic # 0 => chars'[characteristic].notifying = "stopped"
       /\ server # 0 => tasks'[server].gatt = "down"
       /\ webRTCDataChannel # 0 => channels'[webRTCDataChannel].state = "closed"
       /\ TornDown => UNCHANGED ObjectState]_vars

\* disconnect() was called twice, the first call with a connected socket and
\* the second with nothing done in between
C17_CalledTwice ==
  /\ epoch = 2
  /\ nextSub = 1
  /\ Len(sockets) = 1
  /\ sockets[1].epoch = 0
  /\ sockets[1].conns = 1
  /\ sockets[1].state = "closed"

\* the `error` entries of a sequence of event names
ErrorsIn(events) == SelectSeq(events, LAMBDA e : e = "error")

\* C18: every transport-level failure (a failed initialisation on connect, a
\* failed direct-link send, a server error frame) reaches every subscriber as
\* the Coordinator's `error` event: the subscriber gets as many `error`
\* events in a step as the active transport has raised in it.
C18_FailuresSurfaceAsError ==
  TransportActive =>
    \A sub \in Subscribers :
      Len(ErrorsIn(EventsTo(sub))) = Len(ErrorsIn(ProducedByActive))

\* the fallback data channel of the current session is open and is the only
\* direct link
FallbackActive ==
  /\ ChannelOpen(CurrentLinks)
  /\ channels[webRTCDataChannel].epoch = epoch
  /\ LiveChars = {}

\* C19: once the fallback is active, the `connected`, `message` and `error`
\* events it raises reach every subscriber as the primary path's would, and
\* an inbound message of the fallback channel is delivered as a `message`
\* event and written to the Local Store.
C19_FallbackSharesEventContract ==
  FallbackActive =>
    /\ \A sub \in Subscribers :
         \A e \in BSEvents :
           Len(SelectSeq(EventsTo(sub), LAMBDA x : x = e))
             = Len(SelectSeq(ProducedByActive, LAMBDA x : x = e))
    /\ "message" \in Range(ProducedByActive)
         => (added # <<>> /\ LastOf(added) = PeerMessage)

(***************************************************************************)
(* Rejected sends of the Room Session, checked under SpecServer.           *)
(***************************************************************************)
UnauthorizedFrame == Frame("error", [message |-> "Unauthorized"])

\* C20: a rejected send-message is fatal to that action only: the handler
\* leaves the room registry, the member sets, the membership records and
\* every history unchanged, emits the error frame to the offending connection
\* and nothing to any other; the offending connection stays open, and its
\* later join-room puts it in the room and its later send-message to the room
\* it joined is recorded and echoed to it.
C20_RejectedSendIsLocal ==
  [][LET s == lastEv'.conn
         r == lastEv'.roomCode
     IN /\ (lastEv'.type = "send-message" /\ lastJoin[s].roomCode # r)
             => /\ UNCHANGED <<rooms, users, messages, adapter, sockState>>
                /\ emitted'[s] = <<UnauthorizedFrame>>
                /\ \A c \in Conns \ {s} : emitted'[c] = <<>>
        /\ (lastEv'.type = "join-room" /\ s \in rejected)
             => /\ MapHas(users', s) /\ users'[s].roomCode = r
                /\ s \in adapter'[r]
                /\ \E i \in DOMAIN emitted'[s] : emitted'[s][i].type = "room-history"
        /\ (lastEv'.type = "send-message" /\ s \in rejected
              /\ lastJoin[s].roomCode = r)
             => /\ HistoryOf(messages', r) # <<>>
                /\ LastOf(HistoryOf(messages', r)).senderId = s
                /\ LastOf(HistoryOf(messages', r)).text = lastEv'.message
                /\ \E i \in DOMAIN emitted'[s] :
                     emitted'[s][i] = Frame("new-message",
                                            LastOf(HistoryOf(messages', r)))
    ]_vars

\* a connection whose send-message was rejected has joined a room and sent a
\* message that the room's history now ends with
C20_SentAfterRejection ==
  /\ lastEv.type = "send-message"
  /\ lastEv.conn \in rejected
  /\ lastJoin[lastEv.conn].roomCode = lastEv.roomCode
  /\ HistoryOf(messages, lastEv.roomCode) # <<>>
  /\ LastOf(HistoryOf(messages, lastEv.roomCode)).senderId = lastEv.conn

(***************************************************************************)
(* Claims about the registries of the Room Session, checked under          *)
(* SpecServer.                                                             *)
(***************************************************************************)
\* the connection ids a room-users frame lists
ListedIn(frame) == {frame.data[i].id : i \in DOMAIN frame.data}

\* C21: after a connection has disconnected, whatever join-room events it
\* issued before, it has no membership record and its id is in no room's
\* member set, and the room-users list broadcast after a leave names only
\* connections that are still active.
C21_LeaveRemovesEverywhere ==
  /\ \A s \in Conns :
       sockState[s] = "closed" =>
         /\ ~MapHas(users, s)
         /\ \A r \in DOMAIN rooms : s \notin Range(rooms[r].users)
  /\ lastEv.type = "disconnect" =>
       \A c \in Conns : \A i \in DOMAIN emitted[c] :
         emitted[c][i].type = "room-users" =>
           \A x \in ListedIn(emitted[c][i]) : sockState[x] = "open"

\* C22: between event handlers the room registry has an entry for a room
\* code if and only if the history registry has one.
C22_RoomAndHistoryTogether ==
  \A r \in Rooms : MapHas(rooms, r) <=> MapHas(messages, r)

\* a room that held a recorded message has been deleted with its history
C22_RoomDeletedWithHistory ==
  /\ lastEv.type = "disconnect"
  /\ nextUuid > 1
  /\ rooms = <<>>
  /\ messages = <<>>

(***************************************************************************)
(* Typing signals of the Room Session, checked under SpecTyping.           *)
(***************************************************************************)
TypingKinds == {"typing-start", "typing-stop"}

\* the frame a typing signal of connection s is forwarded as
TypingFrame(kind, s, us) ==
  Frame(IF kind = "typing-start" THEN "user-typing" ELSE "user-stopped-typing",
        [userName |-> us[s].name, userId |-> s])

\* C23: a typing-start or typing-stop from a connection that has joined the
\* claimed room is forwarded to every other member of that room and not to
\* the sender, and leaves the histories, the member sets and the membership
\* records unchanged; a typing signal from a connection that has not joined
\* the claimed room is forwarded to nobody.
C23_TypingForwardedNotRecorded ==
  [][lastEv'.type \in TypingKinds =>
       LET s == lastEv'.conn
           r == lastEv'.roomCode
       IN /\ UNCHANGED <<messages, rooms, users>>
          /\ emitted'[s] = <<>>
          /\ IF lastJoin[s].roomCode = r
             THEN \A c \in Conns \ {s} :
                    (MapHas(users, c) /\ users[c].roomCode = r)
                      => emitted'[c] = <<TypingFrame(lastEv'.type, s, users)>>
             ELSE \A c \in Conns : emitted'[c] = <<>>]_vars

\* a typing signal has been forwarded to another member of a room that has a
\* recorded message
C23_TypingForwarded ==
  /\ lastEv.type \in TypingKinds
  /\ \E c \in Conns \ {lastEv.conn} :
       /\ MapHas(users, c) /\ users[c].roomCode = lastEv.roomCode
       /\ emitted[c] # <<>>
  /\ HistoryOf(messages, lastEv.roomCode) # <<>>

(***************************************************************************)
(* Claims about advisory errors and typing on the client, checked under    *)
(* SpecMessaging and SpecClient.                                           *)
(***************************************************************************)
\* the step has handled a server `error` frame on the relay connection
ServerErrorHandled ==
  /\ isOnline
  /\ \E i \in DOMAIN produced : produced[i].event = "error"

\* the calls of the last step that gave subscriber sub an `error` event
ErrorCallsTo(sub) ==
  {i \in DOMAIN delivered : delivered[i].event = "error" /\ delivered[i].sub = sub}

\* C24: a server `error` frame received on the relay connection is given to
\* every subscriber as one `error` event and tears nothing down: the socket,
\* its connection state, the registered subscribers, the Local Store and the
\* connection state ChatRoom shows are what they were before the frame, and
\* no frame is sent, so later sends and received messages are processed as
\* they were before it.
C24_ServerErrorIsAdvisory ==
  [][ServerErrorHandled' =>
       /\ UNCHANGED ObjectState
       /\ sent' = <<>>
       /\ \A sub \in Range(csListeners["error"]) :
            Cardinality(ErrorCallsTo(sub)') = 1]_vars

\* a server error frame was handled on a connected socket with a subscriber,
\* after a message was received and stored
C24_ErrorOnLiveConnection ==
  /\ ServerErrorHandled
  /\ SocketConnected(CurrentLinks)
  /\ isConnected
  /\ \E sub \in Subscribers : ErrorCallsTo(sub) # {}
  /\ added # <<>>

\* the step called startTyping() or stopTyping() and nothing else of the
\* ConnectionService
TypingCalled ==
  /\ typingLog' # typingLog
  /\ LastOf(typingLog').what \in TypingKinds
  /\ LastOf(typingLog').by \in {"call", "key", "timer"}

\* C25: on the direct-link path (a ConnectionService built offline, which
\* has no socket) startTyping() and stopTyping() are no-ops: the call sends
\* no frame, writes nothing to the Local Store, emits no event and changes
\* no field.
C25_TypingNoOpOnDirectLink ==
  [][(TypingCalled /\ ~isOnline) =>
       /\ sent' = <<>>
       /\ delivered' = <<>>
       /\ produced' = <<>>
       /\ UNCHANGED <<localStorage, added>>
       /\ UNCHANGED ObjectState]_vars

\* startTyping() or stopTyping() was called while the radio link was up and
\* notifying
C25_TypingCalledOnDirectLink ==
  /\ typingLog # <<>>
  /\ LastOf(typingLog).what \in TypingKinds
  /\ LastOf(typingLog).by = "call"
  /\ LastOf(typingLog).direct
  /\ characteristic # 0
  /\ chars[characteristic].notifying = "yes"
  /\ sent = <<>>

\* the step is the arrival of the inbound frame on a direct link of the
\* current session: a notification of a characteristic or a message of the
\* fallback data channel
InboundArrives(frame) ==
  \/ \E c \in DOMAIN chars : chars[c].epoch = epoch /\ RadioNotify(c, frame)
  \/ \E ch \in DOMAIN channels :
       channels[ch].epoch = epoch /\ ChannelMessage(ch, frame)

\* the calls of the last step that gave subscriber sub a `message` event
MessageCallsTo(sub) ==
  {i \in DOMAIN delivered :
     delivered[i].event = "message" /\ delivered[i].sub = sub}

\* C26: an inbound direct-link frame that fails to parse, on the radio or on
\* the fallback sub-path, is dropped: no subscriber is called, nothing is
\* stored and no field changes; a well-formed frame is still delivered to
\* every subscriber as a `message` event.
C26_MalformedFrameDropped ==
  [][\A frame \in InboundFrames :
       InboundArrives(frame) =>
         IF frame.ok
         THEN \A sub \in Subscribers : MessageCallsTo(sub)' # {}
         ELSE /\ delivered' = <<>>
              /\ UNCHANGED <<localStorage, added>>
              /\ UNCHANGED ObjectState]_vars

(***************************************************************************)
(* The typing indicator of ChatRoom, checked under SpecIndicator.          *)
(***************************************************************************)
\* the countdowns that are outstanding
PendingTimers == {t \in DOMAIN timers : timers[t].state = "pending"}

\* the typing-stop calls the timer made
TimerStops == {i \in DOMAIN typingLog : typingLog[i].by = "timer"}

\* the typing-stop calls handleSendMessage made with a sent message
SendStops == {i \in DOMAIN typingLog : typingLog[i].by = "send"}

\* every keypress in the input
Keypresses == {i \in DOMAIN typingLog : typingLog[i].what = "key"}

\* the keypresses made while ChatRoom showed the connection as connected
HandledKeypresses == {i \in Keypresses : typingLog[i].by = "handled"}

\* the last entry of the set before position i of the log, or 0
LastBefore(set, i) ==
  IF {k \in set : k < i} = {} THEN 0
  ELSE CHOOSE k \in set : k < i /\ \A j \in set : j < i => j <= k

\* each typing-stop of the timer comes one interval after the last of the
\* keypresses before it, and is the only one since that keypress
StopsFollow(keys) ==
  \A i \in TimerStops :
    LET k == LastBefore(keys, i)
    IN /\ k # 0
       /\ typingLog[i].at = typingLog[k].at + TypingInterval
       /\ \A j \in TimerStops : (k < j /\ j <= i) => j = i

\* after the last of the keypresses either its countdown is outstanding or
\* the timer has made its one typing-stop call or a send has cancelled it;
\* after a send no countdown is outstanding
CountdownFollows(keys) ==
  LET m == LastBefore(keys \cup SendStops, Len(typingLog) + 1)
      later == {i \in TimerStops : i > m}
  IN IF m = 0 \/ m \in SendStops
     THEN PendingTimers = {} /\ later = {}
     ELSE \/ /\ PendingTimers = {typingTimeoutRef}
             /\ timers[typingTimeoutRef].due = typingLog[m].at + TypingInterval
             /\ later = {}
          \/ /\ PendingTimers = {}
             /\ Cardinality(later) = 1

InMemberSet(s, r) == MapHas(rooms, r) /\ s \in Range(rooms[r].users)

\* C28: after any sequence of join-room, send-message and disconnect events
\* a connection id is in the member set of a room if and only if the
\* connection's membership record names that room, so every connection is a
\* member of at most one room.
C28_RegistriesAgree ==
  \A s \in Conns :
    /\ \A r \in Rooms :
         InMemberSet(s, r) <=> (MapHas(users, s) /\ users[s].roomCode = r)
    /\ Cardinality({r \in Rooms : InMemberSet(s, r)}) <= 1

\* the room the frames of the step are about: the room the event names, or
\* the room of the connection that disconnected
RoomOfStep ==
  IF lastEv'.type = "disconnect"
  THEN IF MapHas(users, lastEv'.conn) THEN users[lastEv'.conn].roomCode ELSE None
  ELSE lastEv'.roomCode

\* the frames sent to the members of a room
RoomFrameTypes ==
  {"new-message", "room-users", "user-joined", "user-left", "user-typing",
   "user-stopped-typing"}

\* C29: a connection receives new-message, room-users, user-joined,
\* user-left and typing frames only for the room it most recently joined:
\* once it has joined another room it gets nothing more of the earlier room.
C29_FramesOnlyForCurrentRoom ==
  [][\A c \in Conns :
       (\E i \in DOMAIN emitted'[c] : emitted'[c][i].type \in RoomFrameTypes)
         => lastJoin'[c].roomCode = RoomOfStep]_vars

(***************************************************************************)
(* The history of the direct-link path, checked under SpecHistory.         *)
(***************************************************************************)
\* C30: the room history the Coordinator delivers to the subscribers on the
\* direct-link path holds only messages of the current user's room, also when
\* the Local Store holds messages of several rooms from earlier sessions.
C30_DirectHistoryOnlyOfUsersRoom ==
  ~isOnline =>
    \A i \in DOMAIN delivered :
      delivered[i].event = "room-history" =>
        \A k \in DOMAIN delivered[i].data :
          delivered[i].data[k].roomCode = User.roomCode

(***************************************************************************)
(* The outcome of every send, checked under SpecMessaging.                 *)
(***************************************************************************)
\* the calls of the last step that gave a subscriber an `error` event
ErrorCalls == {i \in DOMAIN delivered : delivered[i].event = "error"}

\* C31: no send is silently lost: every sendMessage call with non-empty
\* text, in whatever state the Coordinator is, hands a frame to the active
\* transport, or writes the message to the Local Store and gives it to the
\* subscribers as a `message` event, or gives the subscribers an `error`
\* event.
C31_NoSendSilentlyLost ==
  [][\A message \in ClientTexts :
       CS_sendMessage(message, User.roomCode) =>
         \/ sent' # <<>>
         \/ /\ added' # added
            /\ \A sub \in Range(csListeners["message"]) :
                 MessageCallsTo(sub)' # {}
         \/ ErrorCalls' # {}]_vars

====
